---- MODULE Spec2Model ----
(***************************************************************************)
(* State-machine model of twpp/application.hpp: the TWAIN Manager and      *)
(* Source wrappers, the process-wide callback registry g_cbRefs and the    *)
(* readiness protocol between Source::waitReady and Source::callBack.      *)
(*                                                                         *)
(* The native side (DSM / DS reached through ManagerData::m_entry) is the  *)
(* environment: each dispatch call returns an arbitrary ReturnCode, and    *)
(* the native callback may be invoked at any moment on its own thread.     *)
(* The identity id of a SourceData is set when it is built and stays. One  *)
(* Source object is modelled in full; a second Source object that carries  *)
(* the same identity id appears through what its open() and close() do to  *)
(* the shared registry.                                                    *)
(*                                                                         *)
(* Spec takes callBack as one step. SpecRace takes it in two, the registry *)
(* lookup and the store through the pointer found, against the operations  *)
(* that write the registry or free a SourceData: open, close, cleanup,     *)
(* ~Source and createSource. SpecEnable is the readiness protocol alone,   *)
(* with every parent handle and with processEvent; SpecLive adds the       *)
(* fairness of the waiting thread to it. SpecCalls holds the calls that    *)
(* are a bare dispatch. SpecLife is the life of a Source object, with its  *)
(* destruction and the move-assignment of a newly built Source into it.    *)
(***************************************************************************)
EXTENDS Integers, Sequences, FiniteSets, TLC

\* ---------------------------------------------------------------- domains

\* The Source objects modelled in full, the other Source object with the same
\* identity id, and the ids a callback may name (only a Source assigned by
\* defaultSource, showSourceDialog or operator= may carry "id2").
Srcs == {"s1"}
OtherSrc == "other"
NoSrc == "none"
Ids == {"id1", "id2"}

\* Largest remaining-transfer count the native side reports in PendingXfers.
MaxCount == 1

\* Largest number of identities the native side enumerates for sources().
MaxSources == 2

\* Return codes the native side produces in the model: the ones the code tells
\* apart, and Failure for every other code.
RC == {"Success", "Failure", "CheckStatus"}
XferRC == {"Success", "Failure", "XferDone"}
EventRC == {"Success", "Failure", "DsEvent", "NotDsEvent"}

\* Codes ending an Identity enumeration.
ListRC == {"Failure", "EndOfList"}

\* Codes of a native call whose result the code only tests with success().
RCTest == {"Success", "Failure"}

\* Messages the callback accepts, and one standing for every other message.
ReadyMsgs == {"Null", "XferReady", "CloseDsOk", "CloseDsReq"}
Msgs == ReadyMsgs \cup {"Other"}

DsmStates == {"PreSession", "Loaded", "Open"}
DsStates == {"Closed", "Open", "Enabled", "XferReady", "Xferring"}

DataGroups == {"Image", "Audio"}

\* Window handles: the null Handle() and the parents a UserInterface may name.
NullHandle == "null"
Handles == {"h1", "h2"}
PendingMsgs == {"EndXfer", "Reset", "Get"}
XferKinds == {"ImageFileXfer", "ImageMemFileXfer", "ImageMemXfer",
              "ImageNativeXfer", "AudioFileXfer", "AudioNativeXfer"}

\* The messages and the transfer calls taken in the life of a Source object:
\* no signal and one signal; one call that advances on Success and one that
\* does not.
LifeMsgs == {"Null", "XferReady"}
LifeXfers == {"ImageMemXfer", "ImageNativeXfer"}

\* Data types of the typed calls that are a bare dispatch (lines 346-411 and
\* 493-666), and the codes such a call can hand back.
GenericDats == {"Capability", "Status", "XferGroup", "CustomBase"}
GenericRC == {"Success", "Failure", "CheckStatus", "XferDone"}

\* Manager calls that hand a Source to the caller through an assignment, and
\* those that are a bare dispatch.
AssignOps == {"Manager::defaultSource", "Manager::showSourceDialog"}
QueryOps == {"Manager::setDefaultSource", "Manager::status"}

VARIABLES
    isWin,          \* TWPP_DETAIL_OS_WIN: message-pump build (TRUE) or condition-variable build
    dsmState,       \* ManagerData::m_state
    libLoaded,      \* ManagerData::m_lib holds the native library
    m_entry,        \* ManagerData::m_entry: "null" or "set"
    m_srcId,        \* SourceData::m_srcId.id() of each Source
    dsState,        \* SourceData::m_state of each Source
    m_readyMsg,     \* SourceData::m_readyMsg of each Source
    g_cbRefs,       \* Static<void>::g_cbRefs: id -> Source, NoSrc where the key is absent
    pc,             \* position of the thread using each Source
    lastEnable,     \* form of the last EnableDs the native side accepted per Source
    pendingSignal,  \* readiness signal delivered since that EnableDs and not yet returned by waitReady
    cbAccepted,     \* the native side accepted a RegisterCallback of this Source's open()
    ret,            \* the step just taken: operation, source, return code, exit, native calls issued
    crashed,        \* the process called through a null or dangling m_entry and died
    cb,             \* position of the native thread inside callBack, with the pointer it found
    alive,          \* the SourceData of each Source has not been freed
    m_uiHandle      \* SourceData::m_uiHandle of each Source

vars == <<isWin, dsmState, libLoaded, m_entry, m_srcId, dsState,
          m_readyMsg, g_cbRefs, pc, lastEnable, pendingSignal, cbAccepted,
          ret, crashed, cb, alive, m_uiHandle>>

mgrVars == <<dsmState, libLoaded, m_entry>>
srcVars == <<dsState, m_readyMsg, g_cbRefs, pc, lastEnable, pendingSignal, cbAccepted>>

\* ---------------------------------------------------------------- helpers

success(rc) == rc = "Success"

\* The record of a step. xg and count carry what the native side handed back
\* to the step: the transfer group and the remaining count read by
\* pendingXfers, the number of identities pushed by sources.
EvD(op, s, rc, path, calls, xg, count) ==
    [op |-> op, src |-> s, rc |-> rc, path |-> path, calls |-> calls,
     xg |-> xg, count |-> count]

Ev(op, s, rc, path, calls) == EvD(op, s, rc, path, calls, "none", 0)

Idle == [at |-> "idle", adv |-> FALSE, uiOnly |-> FALSE, usesCb |-> FALSE]

\* The native thread is outside callBack.
CbIdle == [at |-> "idle", id |-> "none", src |-> NoSrc, msg |-> "Null"]

\* m_entry points into a library that is still loaded.
Callable == m_entry = "set" /\ libLoaded

\* A call through m_entry returns only while the entry is callable; through a
\* null pointer or a pointer into an unloaded library the process dies.
EntryReturns == Callable

Init ==
    /\ isWin \in BOOLEAN
    /\ dsmState = "PreSession"
    /\ libLoaded = FALSE
    /\ m_entry = "null"
    /\ m_srcId = [s \in Srcs |-> "id1"]
    /\ dsState = [s \in Srcs |-> "Closed"]
    /\ m_readyMsg = [s \in Srcs |-> "Null"]
    /\ g_cbRefs = [i \in Ids |-> NoSrc]
    /\ pc = [s \in Srcs |-> Idle]
    /\ lastEnable = [s \in Srcs |-> "none"]
    /\ pendingSignal = [s \in Srcs |-> "Null"]
    /\ cbAccepted = [s \in Srcs |-> FALSE]
    /\ ret = Ev("init", NoSrc, "none", "none", <<>>)
    /\ crashed = FALSE
    /\ cb = CbIdle
    /\ alive = [s \in Srcs |-> TRUE]
    /\ m_uiHandle = [s \in Srcs |-> NullHandle]

\* ---------------------------------------------------------------- Manager

\* The usage contract stated above class Manager (lines 776-778): every Source
\* is cleaned up before its manager is closed, unloaded or destroyed. The
\* Manager operations and the Source operations share no field but m_entry,
\* which only load() writes, so every Manager operation is taken while the
\* Sources are at rest.
SourcesCleanedUp == \A s \in Srcs : dsState[s] = "Closed" /\ pc[s].at = "idle"

\* Variant: unload() gives up without releasing anything.
unloadResultKeepsLibrary(st, lib) == [st |-> st, lib |-> lib, r |-> "false"]

\* Manager::unload as a function of the manager fields (the root window, which
\* no dispatch call depends on, is left out).
unloadResult(st, lib) ==
    IF st # "Loaded"
    THEN [st |-> st, lib |-> lib, r |-> "false"]
    ELSE [st |-> "PreSession", lib |-> FALSE, r |-> "true"]

ManagerLoad(libOk, resolved) ==
    /\ ~crashed
    /\ SourcesCleanedUp
    /\ IF dsmState # "PreSession" \/ ~libOk
       THEN /\ ret' = Ev("Manager::load", NoSrc, "false", "early", <<>>)
            /\ UNCHANGED mgrVars
       ELSE IF resolved
       THEN /\ dsmState' = "Loaded"
            /\ libLoaded' = TRUE
            /\ m_entry' = "set"
            /\ ret' = Ev("Manager::load", NoSrc, "true", "loaded", <<>>)
       ELSE LET u == unloadResult("Loaded", TRUE) IN
            /\ dsmState' = u.st
            /\ libLoaded' = u.lib
            /\ m_entry' = "null"
            /\ ret' = Ev("Manager::load", NoSrc, "false", "unresolved", <<>>)
    /\ UNCHANGED <<isWin, cb, alive, m_uiHandle, m_srcId, srcVars, crashed>>

ManagerUnload ==
    /\ ~crashed
    /\ SourcesCleanedUp
    /\ LET u == unloadResult(dsmState, libLoaded) IN
       /\ dsmState' = u.st
       /\ libLoaded' = u.lib
       /\ ret' = Ev("Manager::unload", NoSrc, u.r, "none", <<>>)
    /\ UNCHANGED <<isWin, cb, alive, m_uiHandle, m_entry, m_srcId, srcVars, crashed>>

\* Manager::open. windowOk: on Windows, a root window was supplied, is still
\* owned, or CreateWindowA produced one.
ManagerOpen(rc, windowOk) ==
    /\ ~crashed
    /\ SourcesCleanedUp
    /\ IF dsmState # "Loaded"
       THEN /\ ret' = Ev("Manager::open", NoSrc, "Failure", "gate", <<>>)
            /\ UNCHANGED mgrVars
       ELSE IF isWin /\ ~windowOk
       THEN /\ ret' = Ev("Manager::open", NoSrc, "Failure", "window", <<>>)
            /\ UNCHANGED mgrVars
       ELSE /\ EntryReturns
            /\ dsmState' = IF success(rc) THEN "Open" ELSE dsmState
            /\ ret' = Ev("Manager::open", NoSrc, rc, "native", <<"OpenDsm">>)
            /\ UNCHANGED <<libLoaded, m_entry>>
    /\ UNCHANGED <<isWin, cb, alive, m_uiHandle, m_srcId, srcVars, crashed>>

\* Manager::close as a function of the state and the native code.
closeDsmState(st, rc) == IF success(rc) THEN "Loaded" ELSE st

ManagerClose(rc) ==
    /\ ~crashed
    /\ SourcesCleanedUp
    /\ EntryReturns
    /\ dsmState' = closeDsmState(dsmState, rc)
    /\ ret' = Ev("Manager::close", NoSrc, rc, "native", <<"CloseDsm">>)
    /\ UNCHANGED <<isWin, cb, alive, m_uiHandle, libLoaded, m_entry, m_srcId, srcVars, crashed>>

ManagerCleanup(rcClose) ==
    /\ ~crashed
    /\ SourcesCleanedUp
    /\ dsmState = "Open" => EntryReturns
    /\ LET st1 == IF dsmState = "Open" THEN closeDsmState(dsmState, rcClose) ELSE dsmState
           u == IF dsmState \in {"Open", "Loaded"}
                THEN unloadResult(st1, libLoaded)
                ELSE [st |-> dsmState, lib |-> libLoaded, r |-> "false"]
       IN /\ dsmState' = u.st
          /\ libLoaded' = u.lib
          /\ ret' = Ev("Manager::cleanup", NoSrc, "void", dsmState,
                       IF dsmState = "Open" THEN <<"CloseDsm">> ELSE <<>>)
    /\ UNCHANGED <<isWin, cb, alive, m_uiHandle, m_entry, m_srcId, srcVars, crashed>>

\* The do-while loop of Manager::sources: codes are the codes the following
\* GetNext calls return, count the identities pushed so far.
RECURSIVE sourcesLoop(_, _, _)
sourcesLoop(codes, count, calls) ==
    LET rc == Head(codes) IN
    IF success(rc) /\ Len(codes) > 1
    THEN sourcesLoop(Tail(codes), count + 1, Append(calls, "GetNext"))
    ELSE [rc |-> rc, count |-> count + 1, calls |-> Append(calls, "GetNext")]

\* Manager::sources as a function of the code of GetFirst and of the codes of
\* the GetNext calls.
sourcesResult(rcFirst, codes) ==
    IF success(rcFirst)
    THEN sourcesLoop(codes, 0, <<"GetFirst">>)
    ELSE [rc |-> rcFirst, count |-> 0, calls |-> <<"GetFirst">>]

\* Manager::sources. more: how many GetNext calls succeed before the one that
\* ends the enumeration with rcLast.
ManagerSources(rcFirst, more, rcLast) ==
    /\ ~crashed
    /\ SourcesCleanedUp
    /\ EntryReturns
    /\ LET r == sourcesResult(rcFirst, [i \in 1..(more + 1) |->
                                         IF i <= more THEN "Success" ELSE rcLast])
       IN ret' = EvD("Manager::sources", NoSrc, r.rc, "native", r.calls, "none", r.count)
    /\ UNCHANGED <<isWin, cb, alive, m_uiHandle, mgrVars, m_srcId, srcVars, crashed>>

\* ---------------------------------------------------------------- Source

Erase(refs, id) == [refs EXCEPT ![id] = NoSrc]

\* Variant: close() records Closed and erases the key whatever CloseDs returned.
closeResultIgnoresCode(s, st, refs, rc) ==
    [st |-> "Closed", refs |-> Erase(refs, m_srcId[s])]

\* Source::close as a function of the state, the registry and the native code.
closeResult(s, st, refs, rc) ==
    [st |-> IF success(rc) THEN "Closed" ELSE st,
     refs |-> IF success(rc) THEN Erase(refs, m_srcId[s]) ELSE refs]

\* Variant: the entry is stored whether or not a callback was accepted.
RegistersEntryAlways(usesCb) == TRUE

\* Where Source::open stores the registry entry: only after a RegisterCallback
\* was accepted.
RegistersEntry(usesCb) == usesCb

\* Source::open. cb2, cb1: codes of the two RegisterCallback calls; allocOk:
\* whether the map insertion can allocate; rcClose: code of the rollback CloseDs.
openResult(s, st, refs, rcOpen, cb2, cb1, allocOk, rcClose) ==
    LET id == m_srcId[s]
        usesCb == success(cb2) \/ success(cb1)
        regCalls == IF success(cb2) THEN <<"OpenDs", "RegisterCallback2">>
                    ELSE <<"OpenDs", "RegisterCallback2", "RegisterCallback">>
        rolled == closeResult(s, "Open", refs, rcClose)
    IN  IF ~success(rcOpen)
        THEN [st |-> st, refs |-> refs, rc |-> rcOpen, path |-> "native",
              calls |-> <<"OpenDs">>, acc |-> FALSE]
        ELSE IF RegistersEntry(usesCb)
        THEN IF refs[id] = NoSrc /\ ~allocOk
             THEN [st |-> rolled.st, refs |-> rolled.refs, rc |-> "bad_alloc",
                   path |-> "throw", calls |-> regCalls \o <<"CloseDs">>, acc |-> usesCb]
             ELSE [st |-> "Open", refs |-> [refs EXCEPT ![id] = s], rc |-> rcOpen,
                   path |-> "registered", calls |-> regCalls, acc |-> usesCb]
        ELSE IF ~isWin
        THEN [st |-> rolled.st, refs |-> rolled.refs, rc |-> "Failure",
              path |-> "rollback", calls |-> regCalls \o <<"CloseDs">>, acc |-> FALSE]
        ELSE [st |-> "Open", refs |-> refs, rc |-> rcOpen, path |-> "nocb",
              calls |-> regCalls, acc |-> FALSE]

\* Guard shared by the operations of one Source: its owner serialises them.
SourceFree(s) == ~crashed /\ alive[s] /\ pc[s] = Idle

SourceOpen(s, rcOpen, cb2, cb1, allocOk, rcClose) ==
    /\ SourceFree(s)
    /\ EntryReturns
    /\ LET o == openResult(s, dsState[s], g_cbRefs, rcOpen, cb2, cb1, allocOk, rcClose) IN
       /\ dsState' = [dsState EXCEPT ![s] = o.st]
       /\ g_cbRefs' = o.refs
       /\ cbAccepted' = [cbAccepted EXCEPT ![s] = @ \/ o.acc]
       /\ ret' = Ev("Source::open", s, o.rc, o.path, o.calls)
    /\ UNCHANGED <<isWin, cb, alive, m_uiHandle, mgrVars, m_srcId, m_readyMsg, pc, lastEnable,
                   pendingSignal, crashed>>

SourceClose(s, rc) ==
    /\ SourceFree(s)
    /\ EntryReturns
    /\ LET c == closeResult(s, dsState[s], g_cbRefs, rc) IN
       /\ dsState' = [dsState EXCEPT ![s] = c.st]
       /\ g_cbRefs' = c.refs
    /\ ret' = Ev("Source::close", s, rc, "native", <<"CloseDs">>)
    /\ UNCHANGED <<isWin, cb, alive, m_uiHandle, mgrVars, m_srcId, m_readyMsg, pc, lastEnable,
                   pendingSignal, cbAccepted, crashed>>

\* Variant: CheckStatus advances in the ui-only form too.
enableAdvancesOnAnyCheckStatus(rc, uiOnly) == success(rc) \/ rc = "CheckStatus"

\* The codes of EnableDs / EnableDsUiOnly after which enable() advances.
enableAdvances(rc, uiOnly) == success(rc) \/ (~uiOnly /\ rc = "CheckStatus")

\* Source::enable, first half: the native side has handled EnableDs (adv: with
\* a code after which enable() advances); the test and the assignments of
\* lines 224-227 have not run yet.
SourceEnableCall(s, uiOnly, adv) ==
    /\ SourceFree(s)
    /\ EntryReturns
    /\ pc' = [pc EXCEPT ![s] = [at |-> "enable", adv |-> adv, uiOnly |-> uiOnly,
                                usesCb |-> FALSE]]
    /\ pendingSignal' = [pendingSignal EXCEPT ![s] = IF adv THEN "Null" ELSE @]
    /\ ret' = Ev("Source::enable.call", s, "none", "native",
                 <<IF uiOnly THEN "EnableDsUiOnly" ELSE "EnableDs">>)
    /\ UNCHANGED <<isWin, cb, alive, m_uiHandle, mgrVars, m_srcId, dsState, m_readyMsg, g_cbRefs,
                   lastEnable, cbAccepted, crashed>>

\* Source::enable, second half: lines 224-230, with the code rc the native
\* call returned and the window handle parent that ui.parent() names.
SourceEnableReturn(s, rc, parent) ==
    /\ ~crashed
    /\ pc[s].at = "enable"
    /\ enableAdvances(rc, pc[s].uiOnly) = pc[s].adv
    /\ LET adv == enableAdvances(rc, pc[s].uiOnly) IN
       /\ m_readyMsg' = [m_readyMsg EXCEPT ![s] = IF adv THEN "Null" ELSE @]
       /\ dsState' = [dsState EXCEPT ![s] = IF adv THEN "Enabled" ELSE @]
       /\ m_uiHandle' = [m_uiHandle EXCEPT ![s] = IF adv THEN parent ELSE @]
       /\ lastEnable' = [lastEnable EXCEPT
                           ![s] = IF ~adv THEN @
                                  ELSE IF pc[s].uiOnly THEN "uiOnly" ELSE "full"]
    /\ pc' = [pc EXCEPT ![s] = Idle]
    /\ ret' = Ev("Source::enable", s, rc,
                 IF pc[s].uiOnly THEN "uiOnly" ELSE "full", <<>>)
    /\ UNCHANGED <<isWin, cb, alive, mgrVars, m_srcId, g_cbRefs, pendingSignal,
                   cbAccepted, crashed>>

\* Variant: disable() records Open whatever DisableDs returned.
disableStateIgnoresCode(st, rc) == "Open"

\* Source::disable as a function of the state and the native code.
disableState(st, rc) == IF success(rc) THEN "Open" ELSE st

SourceDisable(s, rc) ==
    /\ SourceFree(s)
    /\ EntryReturns
    /\ dsState' = [dsState EXCEPT ![s] = disableState(@, rc)]
    /\ ret' = Ev("Source::disable", s, rc, "native", <<"DisableDs">>)
    /\ UNCHANGED <<isWin, cb, alive, m_uiHandle, mgrVars, m_srcId, m_readyMsg, g_cbRefs, pc,
                   lastEnable, pendingSignal, cbAccepted, crashed>>

\* ---------------------------------------------------------------- waitReady

\* Variants of the switch: the CloseDsReq case returning Success, the CloseDsReq
\* case moving to Open, and the CloseDsOk label missing above the XferReady
\* assignment.
readyResultCancelAsSuccess(st, msg) ==
    CASE msg = "XferReady"  -> [rc |-> "Success", st |-> "XferReady"]
      [] msg = "CloseDsOk"  -> [rc |-> "Success", st |-> st]
      [] msg = "CloseDsReq" -> [rc |-> "Success", st |-> st]
      [] OTHER              -> [rc |-> "Failure", st |-> st]

readyResultCancelToOpen(st, msg) ==
    CASE msg = "XferReady"  -> [rc |-> "Success", st |-> "XferReady"]
      [] msg = "CloseDsOk"  -> [rc |-> "Success", st |-> st]
      [] msg = "CloseDsReq" -> [rc |-> "Cancel", st |-> "Open"]
      [] OTHER              -> [rc |-> "Failure", st |-> st]

readyResultOkAsXferReady(st, msg) ==
    CASE msg \in {"XferReady", "CloseDsOk"} -> [rc |-> "Success", st |-> "XferReady"]
      [] msg = "CloseDsReq" -> [rc |-> "Cancel", st |-> st]
      [] OTHER              -> [rc |-> "Failure", st |-> st]

\* The switch at the end of Source::waitReady (lines 295-306).
readyResult(st, msg) ==
    CASE msg = "XferReady"  -> [rc |-> "Success", st |-> "XferReady"]
      [] msg = "CloseDsOk"  -> [rc |-> "Success", st |-> st]
      [] msg = "CloseDsReq" -> [rc |-> "Cancel", st |-> st]
      [] OTHER              -> [rc |-> "Failure", st |-> st]

\* Variant: the wait is left on any wake-up, without re-testing m_readyMsg.
WaitLoopExitNoRetest(s) == TRUE

\* The condition under which the wait loop (lines 261 and 290) is left.
WaitLoopExit(s) == m_readyMsg[s] # "Null"

\* waitReady leaves through the final switch: shared by the three steps below.
WaitReadySignal(s) ==
    LET r == readyResult(dsState[s], m_readyMsg[s]) IN
    /\ dsState' = [dsState EXCEPT ![s] = r.st]
    /\ pc' = [pc EXCEPT ![s] = Idle]
    /\ pendingSignal' = [pendingSignal EXCEPT ![s] = "Null"]
    /\ ret' = Ev("Source::waitReady", s, r.rc, "signal", <<>>)
    /\ UNCHANGED <<m_readyMsg>>

\* Entry of waitReady: the state gate, the registry lookup and, in the
\* condition-variable build, the lock and the first test of the wait loop.
WaitReadyBegin(s) ==
    /\ SourceFree(s)
    /\ LET usesCb == g_cbRefs[m_srcId[s]] # NoSrc IN
       IF dsState[s] # "Enabled"
       THEN /\ ret' = Ev("Source::waitReady", s, "Failure", "gate", <<>>)
            /\ UNCHANGED <<dsState, m_readyMsg, pc, pendingSignal>>
       ELSE IF isWin
       THEN /\ pc' = [pc EXCEPT ![s] = [at |-> "pump", adv |-> FALSE,
                                        uiOnly |-> FALSE, usesCb |-> usesCb]]
            /\ ret' = Ev("Source::waitReady.enter", s, "none", "pump", <<>>)
            /\ UNCHANGED <<dsState, m_readyMsg, pendingSignal>>
       ELSE IF ~usesCb
       THEN /\ ret' = Ev("Source::waitReady", s, "Failure", "nocb", <<>>)
            /\ UNCHANGED <<dsState, m_readyMsg, pc, pendingSignal>>
       ELSE IF WaitLoopExit(s)
       THEN WaitReadySignal(s)
       ELSE /\ pc' = [pc EXCEPT ![s] = [at |-> "wait", adv |-> FALSE,
                                        uiOnly |-> FALSE, usesCb |-> TRUE]]
            /\ ret' = Ev("Source::waitReady.enter", s, "none", "wait", <<>>)
            /\ UNCHANGED <<dsState, m_readyMsg, pendingSignal>>
    /\ UNCHANGED <<isWin, cb, alive, m_uiHandle, mgrVars, m_srcId, g_cbRefs, lastEnable, cbAccepted, crashed>>

\* Condition-variable build: the waiter wakes (notified or spuriously),
\* re-tests the loop condition under the mutex and leaves when it is met.
WaitReadyWake(s) ==
    /\ ~crashed
    /\ pc[s].at = "wait"
    /\ WaitLoopExit(s)
    /\ WaitReadySignal(s)
    /\ UNCHANGED <<isWin, cb, alive, m_uiHandle, mgrVars, m_srcId, g_cbRefs, lastEnable, cbAccepted, crashed>>

\* Message-pump build: one turn of the loop of lines 261-283. getOk: GetMessage
\* returned a message; rc, evMsg: result of ProcessEvent and the event's message.
WaitReadyPump(s, getOk, rc, evMsg) ==
    /\ ~crashed
    /\ pc[s].at = "pump"
    /\ IF WaitLoopExit(s)
       THEN WaitReadySignal(s)
       ELSE IF ~getOk
       THEN /\ ret' = Ev("Source::waitReady", s, "Failure", "getmessage", <<>>)
            /\ pc' = [pc EXCEPT ![s] = Idle]
            /\ UNCHANGED <<dsState, m_readyMsg, pendingSignal>>
       ELSE /\ EntryReturns
            /\ IF rc \in {"NotDsEvent", "DsEvent"}
               THEN /\ m_readyMsg' = [m_readyMsg EXCEPT
                                        ![s] = IF pc[s].usesCb THEN @ ELSE evMsg]
                    /\ ret' = Ev("Source::waitReady.pump", s, "none", rc, <<"ProcessEvent">>)
                    /\ UNCHANGED <<dsState, pc, pendingSignal>>
               ELSE /\ ret' = Ev("Source::waitReady", s, rc, "processevent", <<"ProcessEvent">>)
                    /\ pc' = [pc EXCEPT ![s] = Idle]
                    /\ UNCHANGED <<dsState, m_readyMsg, pendingSignal>>
    /\ UNCHANGED <<isWin, cb, alive, m_uiHandle, mgrVars, m_srcId, g_cbRefs, lastEnable, cbAccepted, crashed>>

\* Source::processEvent (lines 312-345, message-pump build only) as a function
\* of the state, the stored message, the registry lookup, the code of
\* ProcessEvent and the event's message. There is no test of the state.
processEventResult(st, stored, usesCb, rc, evMsg) ==
    IF rc \in {"NotDsEvent", "DsEvent"}
    THEN LET msg == IF usesCb THEN stored ELSE evMsg IN
         CASE msg = "XferReady"  -> [rc |-> "Success", st |-> "XferReady", msg |-> msg]
           [] msg = "CloseDsOk"  -> [rc |-> "Success", st |-> st, msg |-> msg]
           [] msg = "CloseDsReq" -> [rc |-> "Cancel", st |-> st, msg |-> msg]
           [] OTHER              -> [rc |-> rc, st |-> st, msg |-> msg]
    ELSE [rc |-> rc, st |-> st, msg |-> stored]

SourceProcessEvent(s, rc, evMsg) ==
    /\ isWin
    /\ SourceFree(s)
    /\ EntryReturns
    /\ LET r == processEventResult(dsState[s], m_readyMsg[s], g_cbRefs[m_srcId[s]] # NoSrc,
                                   rc, evMsg) IN
       /\ dsState' = [dsState EXCEPT ![s] = r.st]
       /\ m_readyMsg' = [m_readyMsg EXCEPT ![s] = r.msg]
       /\ pendingSignal' = [pendingSignal EXCEPT
                              ![s] = IF r.rc \in {"Success", "Cancel"} /\ r.rc # rc
                                     THEN "Null" ELSE @]
       /\ ret' = Ev("Source::processEvent", s, r.rc, rc, <<"ProcessEvent">>)
    /\ UNCHANGED <<isWin, cb, alive, m_uiHandle, mgrVars, m_srcId, g_cbRefs, pc, lastEnable,
                   cbAccepted, crashed>>

\* ---------------------------------------------------------------- callBack

\* Source::callBack: the message filter, the registry lookup and, under the
\* source's mutex in the condition-variable build, the store and the notify.
CallBack(id, msg) ==
    /\ ~crashed
    /\ cb = CbIdle
    /\ LET src == g_cbRefs[id] IN
       IF msg \notin ReadyMsgs \/ src = NoSrc
       THEN /\ ret' = Ev("callBack", NoSrc, "Failure",
                         IF msg \notin ReadyMsgs THEN "message" ELSE "notfound", <<>>)
            /\ UNCHANGED <<m_readyMsg, pendingSignal>>
       ELSE /\ ret' = Ev("callBack", src, "Success", msg, <<>>)
            /\ IF src \in Srcs
               THEN /\ m_readyMsg' = [m_readyMsg EXCEPT ![src] = msg]
                    /\ pendingSignal' = [pendingSignal EXCEPT
                                           ![src] = IF msg = "Null" THEN @ ELSE msg]
               ELSE UNCHANGED <<m_readyMsg, pendingSignal>>
    /\ UNCHANGED <<isWin, cb, alive, m_uiHandle, mgrVars, m_srcId, dsState, g_cbRefs, pc, lastEnable,
                   cbAccepted, crashed>>

\* ---------------------------------------------------------------- transfers

PendName(msg) ==
    CASE msg = "EndXfer" -> "PendingXfers.EndXfer"
      [] msg = "Reset"   -> "PendingXfers.Reset"
      [] OTHER           -> "PendingXfers.Get"

\* Variant: EndXfer decides on the transfer group alone, not on the count.
pendingStateIgnoresCount(st, msg, rc, xg, count) ==
    IF ~success(rc) THEN st
    ELSE CASE msg = "EndXfer" -> IF xg = "Image" THEN "Enabled" ELSE "XferReady"
           [] msg = "Reset"   -> IF xg = "Image" THEN "Enabled" ELSE st
           [] OTHER           -> st

\* Source::call(DataGroup, Msg, PendingXfers&): the state after the call. xg is
\* the group read back by xferGroup(Msg::Get), count is data.count().
pendingState(st, msg, rc, xg, count) ==
    IF ~success(rc) THEN st
    ELSE CASE msg = "EndXfer" -> IF xg = "Image" /\ count = 0 THEN "Enabled" ELSE "XferReady"
           [] msg = "Reset"   -> IF xg = "Image" THEN "Enabled" ELSE st
           [] OTHER           -> st

pendingCalls(msg, rc) ==
    IF success(rc) /\ msg \in {"EndXfer", "Reset"}
    THEN <<PendName(msg), "XferGroup.Get">>
    ELSE <<PendName(msg)>>

SourcePendingXfers(s, msg, rc, xg, count) ==
    /\ SourceFree(s)
    /\ EntryReturns
    /\ dsState' = [dsState EXCEPT ![s] = pendingState(@, msg, rc, xg, count)]
    /\ ret' = EvD("Source::pendingXfers", s, rc, msg, pendingCalls(msg, rc),
                  IF success(rc) /\ msg # "Get" THEN xg ELSE "none",
                  IF success(rc) /\ msg = "EndXfer" THEN count ELSE 0)
    /\ UNCHANGED <<isWin, cb, alive, m_uiHandle, mgrVars, m_srcId, m_readyMsg, g_cbRefs, pc,
                   lastEnable, pendingSignal, cbAccepted, crashed>>

\* The codes after which each transfer-initiating call moves to Xferring.
xferAdvances(kind, rc) ==
    CASE kind = "ImageFileXfer"    -> success(rc)
      [] kind = "ImageMemFileXfer" -> success(rc) \/ rc = "XferDone"
      [] kind = "ImageMemXfer"     -> success(rc) \/ rc = "XferDone"
      [] kind = "ImageNativeXfer"  -> rc = "XferDone"
      [] kind = "AudioFileXfer"    -> rc = "XferDone"
      [] kind = "AudioNativeXfer"  -> success(rc)

SourceXfer(s, kind, rc) ==
    /\ SourceFree(s)
    /\ EntryReturns
    /\ dsState' = [dsState EXCEPT ![s] = IF xferAdvances(kind, rc) THEN "Xferring" ELSE @]
    /\ ret' = Ev("Source::xfer", s, rc, kind, <<kind>>)
    /\ UNCHANGED <<isWin, cb, alive, m_uiHandle, mgrVars, m_srcId, m_readyMsg, g_cbRefs, pc,
                   lastEnable, pendingSignal, cbAccepted, crashed>>

\* ---------------------------------------------------------------- cleanup

\* Variant of Source::cleanup without the forced erase of lines 133-136.
cleanupResultNoForcedErase(s, st0, refs, rcEnd, xg1, count, rcReset, xg2, rcDis, rcClose) ==
    LET st3 == IF st0 \in {"Xferring", "XferReady", "Enabled"}
               THEN disableState(st0, rcDis) ELSE st0
        c   == closeResult(s, st3, refs, rcClose)
    IN  [st |-> IF st0 # "Closed" THEN c.st ELSE st3,
         refs |-> IF st0 # "Closed" THEN c.refs ELSE refs,
         calls |-> IF st0 # "Closed" THEN <<"CloseDs">> ELSE <<>>]

\* Source::cleanup: the switch is taken on the state at entry (st0) and falls
\* through; each step sees the state the step before it left.
cleanupResult(s, st0, refs, rcEnd, xg1, count, rcReset, xg2, rcDis, rcClose) ==
    LET doEnd   == st0 = "Xferring"
        st1     == IF doEnd THEN pendingState(st0, "EndXfer", rcEnd, xg1, count) ELSE st0
        doReset == st0 \in {"Xferring", "XferReady"} /\ st1 = "XferReady"
        st2     == IF doReset THEN pendingState(st1, "Reset", rcReset, xg2, count) ELSE st1
        doDis   == st0 \in {"Xferring", "XferReady", "Enabled"}
        st3     == IF doDis THEN disableState(st2, rcDis) ELSE st2
        doClose == st0 # "Closed"
        c       == closeResult(s, st3, refs, rcClose)
    IN  [st |-> IF doClose THEN c.st ELSE st3,
         refs |-> IF ~doClose THEN refs
                  ELSE IF success(rcClose) THEN c.refs
                  ELSE Erase(c.refs, m_srcId[s]),
         calls |-> (IF doEnd THEN pendingCalls("EndXfer", rcEnd) ELSE <<>>)
                   \o (IF doReset THEN pendingCalls("Reset", rcReset) ELSE <<>>)
                   \o (IF doDis THEN <<"DisableDs">> ELSE <<>>)
                   \o (IF doClose THEN <<"CloseDs">> ELSE <<>>)]

SourceCleanup(s, rcEnd, xg1, count, rcReset, xg2, rcDis, rcClose) ==
    /\ SourceFree(s)
    /\ dsState[s] # "Closed" => EntryReturns
    /\ LET c == cleanupResult(s, dsState[s], g_cbRefs, rcEnd, xg1, count,
                              rcReset, xg2, rcDis, rcClose) IN
       /\ dsState' = [dsState EXCEPT ![s] = c.st]
       /\ g_cbRefs' = c.refs
       /\ ret' = Ev("Source::cleanup", s, "void", dsState[s], c.calls)
    /\ UNCHANGED <<isWin, cb, alive, m_uiHandle, mgrVars, m_srcId, m_readyMsg, pc, lastEnable,
                   pendingSignal, cbAccepted, crashed>>

\* ---------------------------------------------------------------- neighbours

\* open() of the other Source object with the same identity id, ending with its
\* registry entry stored (line 187).
OtherSourceOpen ==
    /\ ~crashed
    /\ EntryReturns
    /\ g_cbRefs' = [g_cbRefs EXCEPT !["id1"] = OtherSrc]
    /\ ret' = Ev("Source::open", OtherSrc, "Success", "registered", <<>>)
    /\ UNCHANGED <<isWin, cb, alive, m_uiHandle, mgrVars, m_srcId, dsState, m_readyMsg, pc,
                   lastEnable, pendingSignal, cbAccepted, crashed>>

\* close() or cleanup() of that other Source object, erasing the shared key
\* (lines 210 and 135).
OtherSourceClose ==
    /\ ~crashed
    /\ EntryReturns
    /\ g_cbRefs' = Erase(g_cbRefs, "id1")
    /\ ret' = Ev("Source::close", OtherSrc, "Success", "native", <<>>)
    /\ UNCHANGED <<isWin, cb, alive, m_uiHandle, mgrVars, m_srcId, dsState, m_readyMsg, pc,
                   lastEnable, pendingSignal, cbAccepted, crashed>>

\* ---------------------------------------------------------------- callBack against the registry

\* Source::callBack up to the lookup (lines 734-744): the message filter and
\* refs.find on the native thread, which holds no lock here.
CallBackFind(id, msg) ==
    /\ ~crashed
    /\ cb = CbIdle
    /\ LET src == g_cbRefs[id] IN
       IF msg \notin ReadyMsgs \/ src = NoSrc
       THEN /\ ret' = Ev("callBack", NoSrc, "Failure",
                         IF msg \notin ReadyMsgs THEN "message" ELSE "notfound", <<>>)
            /\ UNCHANGED cb
       ELSE /\ cb' = [at |-> "found", id |-> id, src |-> src, msg |-> msg]
            /\ ret' = Ev("callBack.find", src, "none", msg, <<>>)
    /\ UNCHANGED <<isWin, mgrVars, m_srcId, srcVars, crashed, alive, m_uiHandle>>

\* Source::callBack from the dereference on (lines 746-759): the lock of the
\* source's mutex, the store and the notify, through the pointer found before.
\* Through a pointer to a freed SourceData the behaviour is undefined: the
\* process dies (died) or goes on after writing into freed memory.
CallBackStore(died) ==
    /\ ~crashed
    /\ cb.at = "found"
    /\ cb' = CbIdle
    /\ IF cb.src \in Srcs /\ alive[cb.src]
       THEN /\ m_readyMsg' = [m_readyMsg EXCEPT ![cb.src] = cb.msg]
            /\ pendingSignal' = [pendingSignal EXCEPT
                                   ![cb.src] = IF cb.msg = "Null" THEN @ ELSE cb.msg]
            /\ ret' = Ev("callBack", cb.src, "Success", cb.msg, <<>>)
            /\ UNCHANGED crashed
       ELSE IF cb.src \in Srcs
       THEN /\ crashed' = died
            /\ ret' = Ev("callBack", cb.src, IF died THEN "crash" ELSE "Success",
                         "freed", <<>>)
            /\ UNCHANGED <<m_readyMsg, pendingSignal>>
       ELSE /\ ret' = Ev("callBack", cb.src, "Success", cb.msg, <<>>)
            /\ UNCHANGED <<m_readyMsg, pendingSignal, crashed>>
    /\ UNCHANGED <<isWin, mgrVars, m_srcId, dsState, g_cbRefs, pc, lastEnable,
                   cbAccepted, alive, m_uiHandle>>

\* ~Source (lines 95-99): cleanup(), then the SourceData is freed.
SourceDestroy(s, rcEnd, xg1, count, rcReset, xg2, rcDis, rcClose) ==
    /\ SourceFree(s)
    /\ dsState[s] # "Closed" => EntryReturns
    /\ LET c == cleanupResult(s, dsState[s], g_cbRefs, rcEnd, xg1, count,
                              rcReset, xg2, rcDis, rcClose) IN
       /\ dsState' = [dsState EXCEPT ![s] = c.st]
       /\ g_cbRefs' = c.refs
       /\ ret' = Ev("Source::~Source", s, "void", dsState[s], c.calls)
    /\ alive' = [alive EXCEPT ![s] = FALSE]
    /\ UNCHANGED <<isWin, cb, mgrVars, m_srcId, m_readyMsg, pc, lastEnable,
                   pendingSignal, cbAccepted, crashed, m_uiHandle>>

\* Manager::createSource (lines 927-929) for the same identity: a new
\* SourceData with the initial member values of lines 53-69.
SourceCreate(s) ==
    /\ ~crashed
    /\ ~alive[s]
    /\ alive' = [alive EXCEPT ![s] = TRUE]
    /\ dsState' = [dsState EXCEPT ![s] = "Closed"]
    /\ m_readyMsg' = [m_readyMsg EXCEPT ![s] = "Null"]
    /\ lastEnable' = [lastEnable EXCEPT ![s] = "none"]
    /\ pendingSignal' = [pendingSignal EXCEPT ![s] = "Null"]
    /\ cbAccepted' = [cbAccepted EXCEPT ![s] = FALSE]
    /\ m_uiHandle' = [m_uiHandle EXCEPT ![s] = NullHandle]
    /\ ret' = Ev("Manager::createSource", s, "Source", "none", <<>>)
    /\ UNCHANGED <<isWin, cb, mgrVars, m_srcId, g_cbRefs, pc, crashed>>

\* ---------------------------------------------------------------- bare dispatch calls

\* Variant: a generic call records a transfer the way call(ImageMemXfer) does.
genericStateAsImageMemXfer(st, dat, rc) ==
    IF success(rc) \/ rc = "XferDone" THEN "Xferring" ELSE st

\* dsState after a typed call that is 'return dsm(dg, Dat::X, msg, data)'.
genericState(st, dat, rc) == st

\* capability, customData, status, imageInfo, imageLayout, xferGroup,
\* setupFileXfer, customBase and the raw call() overloads behind them.
SourceGenericCall(s, dat, rc) ==
    /\ SourceFree(s)
    /\ EntryReturns
    /\ dsState' = [dsState EXCEPT ![s] = genericState(@, dat, rc)]
    /\ ret' = Ev("Source::call", s, rc, dat, <<dat>>)
    /\ UNCHANGED <<isWin, cb, alive, m_uiHandle, mgrVars, m_srcId, m_readyMsg, g_cbRefs, pc,
                   lastEnable, pendingSignal, cbAccepted, crashed>>

\* Manager::setDefaultSource and Manager::status (lines 945-947, 981-983).
ManagerQuery(op, rc) ==
    /\ ~crashed
    /\ EntryReturns
    /\ ret' = Ev(op, NoSrc, rc, "native", <<op>>)
    /\ UNCHANGED <<isWin, cb, alive, m_uiHandle, mgrVars, m_srcId, srcVars, crashed>>

\* Source::operator=(Source&&) with a Source built by Source(mgr, id) on the
\* right (lines 101-112): cleanup() of the SourceData held so far when there
\* is one, which is then freed, and the new SourceData of identity newId, with
\* the member values of lines 53-69, takes its place.
moveAssignResult(s, held, st0, refs, rcEnd, xg1, count, rcReset, xg2, rcDis, rcClose) ==
    IF held
    THEN cleanupResult(s, st0, refs, rcEnd, xg1, count, rcReset, xg2, rcDis, rcClose)
    ELSE [st |-> st0, refs |-> refs, calls |-> <<>>]

\* The fields of Source s once it holds a newly built SourceData.
HoldsNew(s, newId) ==
    /\ alive' = [alive EXCEPT ![s] = TRUE]
    /\ m_srcId' = [m_srcId EXCEPT ![s] = newId]
    /\ dsState' = [dsState EXCEPT ![s] = "Closed"]
    /\ m_readyMsg' = [m_readyMsg EXCEPT ![s] = "Null"]
    /\ m_uiHandle' = [m_uiHandle EXCEPT ![s] = NullHandle]
    /\ lastEnable' = [lastEnable EXCEPT ![s] = "none"]
    /\ pendingSignal' = [pendingSignal EXCEPT ![s] = "Null"]
    /\ cbAccepted' = [cbAccepted EXCEPT ![s] = FALSE]

SourceMoveAssign(s, newId, rcEnd, xg1, count, rcReset, xg2, rcDis, rcClose) ==
    /\ ~crashed
    /\ pc[s] = Idle
    /\ (alive[s] /\ dsState[s] # "Closed") => EntryReturns
    /\ LET c == moveAssignResult(s, alive[s], dsState[s], g_cbRefs, rcEnd, xg1, count,
                                 rcReset, xg2, rcDis, rcClose) IN
       /\ g_cbRefs' = c.refs
       /\ ret' = Ev("Source::operator=", s, "void",
                    IF alive[s] THEN dsState[s] ELSE "invalid", c.calls)
    /\ HoldsNew(s, newId)
    /\ UNCHANGED <<isWin, cb, mgrVars, pc, crashed>>

\* Manager::defaultSource and Manager::showSourceDialog (lines 934-942 and
\* 970-978): the Identity is asked of the manager and, on success,
\* 'out = Source(d(), id)'. out is Source s, or a Source of the caller that
\* holds no SourceData of Srcs (NoSrc).
ManagerAssignSource(op, out, rc, newId, rcEnd, xg1, count, rcReset, xg2, rcDis, rcClose) ==
    /\ ~crashed
    /\ EntryReturns
    /\ out \in Srcs => pc[out] = Idle
    /\ IF success(rc) /\ out \in Srcs
       THEN /\ LET c == moveAssignResult(out, alive[out], dsState[out], g_cbRefs, rcEnd, xg1,
                                         count, rcReset, xg2, rcDis, rcClose) IN
               /\ g_cbRefs' = c.refs
               /\ ret' = Ev(op, out, rc, IF alive[out] THEN dsState[out] ELSE "invalid",
                            <<op>> \o c.calls)
            /\ HoldsNew(out, newId)
            /\ UNCHANGED <<isWin, cb, mgrVars, pc, crashed>>
       ELSE /\ ret' = Ev(op, out, rc, "native", <<op>>)
            /\ UNCHANGED <<isWin, cb, alive, m_uiHandle, mgrVars, m_srcId, srcVars, crashed>>

\* ---------------------------------------------------------------- invalid entry

ManagerOps == {"Manager::open", "Manager::close", "Manager::cleanup", "Manager::sources"}

\* The operation reaches a dispatch call in the current state.
Dispatches(op, s) ==
    CASE op = "Manager::close"   -> TRUE
      [] op = "Manager::sources" -> TRUE
      [] op = "Manager::open"    -> dsmState = "Loaded"
      [] op = "Manager::cleanup" -> dsmState = "Open"
      [] OTHER -> /\ s \in Srcs
                  /\ \/ pc[s] = Idle
                     \/ pc[s].at = "pump" /\ ~WaitLoopExit(s)

\* Manager::dsmPtr / Source::dsmPtr called while m_entry is null or points into
\* an unloaded library: the call does not return. Every Source operation that
\* starts with a dispatch call appears as "Source::dsmPtr".
CallInvalidEntry(op, s) ==
    /\ ~crashed
    /\ ~Callable
    /\ Dispatches(op, s)
    /\ crashed' = TRUE
    /\ ret' = Ev(op, s, "crash", dsmState, <<>>)
    /\ UNCHANGED <<isWin, cb, alive, m_uiHandle, mgrVars, m_srcId, srcVars>>

\* ---------------------------------------------------------------- specification

\* The codes to consider for a native call: all of them when the call is made,
\* one placeholder when it is not.
Made(called, codes) == IF called THEN codes ELSE {"Failure"}

Next ==
    \/ \E libOk \in BOOLEAN, resolved \in BOOLEAN : ManagerLoad(libOk, resolved)
    \/ ManagerUnload
    \/ \E rc \in RC, windowOk \in BOOLEAN : ManagerOpen(rc, windowOk)
    \/ \E rc \in RC : ManagerClose(rc)
    \/ \E rc \in RCTest : ManagerCleanup(rc)
    \/ \E rcFirst \in {"Success"} \cup ListRC :
          \E more \in IF success(rcFirst) THEN 0..(MaxSources - 1) ELSE {0},
             rcLast \in Made(success(rcFirst), ListRC) :
             ManagerSources(rcFirst, more, rcLast)
    \/ \E s \in Srcs, rcOpen \in RC :
          \E cb2 \in Made(success(rcOpen), RCTest) :
          \E cb1 \in Made(success(rcOpen) /\ ~success(cb2), RCTest),
             allocOk \in BOOLEAN, rcClose \in RCTest :
             SourceOpen(s, rcOpen, cb2, cb1, allocOk, rcClose)
    \/ \E s \in Srcs, rc \in RC : SourceClose(s, rc)
    \/ \E s \in Srcs, uiOnly \in BOOLEAN, adv \in BOOLEAN : SourceEnableCall(s, uiOnly, adv)
    \/ \E s \in Srcs, rc \in RC : SourceEnableReturn(s, rc, "h1")
    \/ \E s \in Srcs, rc \in RC : SourceDisable(s, rc)
    \/ \E s \in Srcs : WaitReadyBegin(s)
    \/ \E s \in Srcs : WaitReadyWake(s)
    \/ \E s \in Srcs, getOk \in BOOLEAN :
          \E rc \in Made(getOk, EventRC) :
          \E evMsg \in IF rc \in {"DsEvent", "NotDsEvent"} THEN Msgs ELSE {"Null"} :
             WaitReadyPump(s, getOk, rc, evMsg)
    \/ \E s \in Srcs, msg \in PendingMsgs, rc \in RC :
          \E xg \in IF success(rc) /\ msg # "Get" THEN DataGroups ELSE {"Image"},
             count \in IF success(rc) /\ msg = "EndXfer" THEN 0..MaxCount ELSE {0} :
             SourcePendingXfers(s, msg, rc, xg, count)
    \/ \E s \in Srcs, kind \in XferKinds, rc \in XferRC : SourceXfer(s, kind, rc)
    \/ \E s \in Srcs :
          \E rcEnd \in Made(dsState[s] = "Xferring", RCTest) :
          \E xg1 \in IF dsState[s] = "Xferring" /\ success(rcEnd) THEN DataGroups ELSE {"Image"},
             count \in IF dsState[s] = "Xferring" /\ success(rcEnd) THEN 0..MaxCount ELSE {0},
             rcReset \in Made(dsState[s] \in {"Xferring", "XferReady"}, RCTest) :
          \E xg2 \in IF success(rcReset) THEN DataGroups ELSE {"Image"},
             rcDis \in Made(dsState[s] \notin {"Closed", "Open"}, RCTest),
             rcClose \in Made(dsState[s] # "Closed", RCTest) :
             SourceCleanup(s, rcEnd, xg1, count, rcReset, xg2, rcDis, rcClose)
    \/ \E id \in Ids, msg \in Msgs : CallBack(id, msg)
    \/ OtherSourceOpen
    \/ OtherSourceClose
    \/ \E op \in ManagerOps : CallInvalidEntry(op, NoSrc)
    \/ \E s \in Srcs : CallInvalidEntry("Source::dsmPtr", s)

Spec == Init /\ [][Next]_vars

\* The callback thread against the thread that owns a Source: callBack taken
\* in its two halves, against open, close, cleanup, destruction and creation.
NextRace ==
    \/ \E libOk \in BOOLEAN, resolved \in BOOLEAN : ManagerLoad(libOk, resolved)
    \/ \E s \in Srcs, rcOpen \in RC :
          \E cb2 \in Made(success(rcOpen), RCTest) :
          \E cb1 \in Made(success(rcOpen) /\ ~success(cb2), RCTest),
             allocOk \in BOOLEAN, rcClose \in RCTest :
             SourceOpen(s, rcOpen, cb2, cb1, allocOk, rcClose)
    \/ \E s \in Srcs, rc \in RC : SourceClose(s, rc)
    \/ \E s \in Srcs, uiOnly \in BOOLEAN, adv \in BOOLEAN : SourceEnableCall(s, uiOnly, adv)
    \/ \E s \in Srcs, rc \in RC : SourceEnableReturn(s, rc, "h1")
    \/ \E s \in Srcs, rcDis \in RCTest, rcClose \in RCTest :
          SourceCleanup(s, "Failure", "Image", 0, "Failure", "Image", rcDis, rcClose)
    \/ \E s \in Srcs, rcDis \in RCTest, rcClose \in RCTest :
          SourceDestroy(s, "Failure", "Image", 0, "Failure", "Image", rcDis, rcClose)
    \/ \E s \in Srcs : SourceCreate(s)
    \/ \E id \in Ids, msg \in Msgs : CallBackFind(id, msg)
    \/ \E died \in BOOLEAN : CallBackStore(died)

SpecRace == Init /\ [][NextRace]_vars

\* The readiness protocol alone: one Source opened, enabled with any parent
\* window, waited on and disabled, with the callback.
NextEnable ==
    \/ \E libOk \in BOOLEAN, resolved \in BOOLEAN : ManagerLoad(libOk, resolved)
    \/ \E s \in Srcs, rcOpen \in RC :
          \E cb2 \in Made(success(rcOpen), RCTest) :
          \E cb1 \in Made(success(rcOpen) /\ ~success(cb2), RCTest),
             allocOk \in BOOLEAN, rcClose \in RCTest :
             SourceOpen(s, rcOpen, cb2, cb1, allocOk, rcClose)
    \/ \E s \in Srcs, uiOnly \in BOOLEAN, adv \in BOOLEAN : SourceEnableCall(s, uiOnly, adv)
    \/ \E s \in Srcs, rc \in RC, parent \in Handles \cup {NullHandle} :
          SourceEnableReturn(s, rc, parent)
    \/ \E s \in Srcs, rc \in RC : SourceDisable(s, rc)
    \/ \E s \in Srcs : WaitReadyBegin(s)
    \/ \E s \in Srcs : WaitReadyWake(s)
    \/ \E s \in Srcs, getOk \in BOOLEAN :
          \E rc \in Made(getOk, EventRC) :
          \E evMsg \in IF rc \in {"DsEvent", "NotDsEvent"} THEN Msgs ELSE {"Null"} :
             WaitReadyPump(s, getOk, rc, evMsg)
    \/ \E id \in Ids, msg \in Msgs : CallBack(id, msg)
    \/ \E s \in Srcs, rc \in EventRC :
          \E evMsg \in IF rc \in {"DsEvent", "NotDsEvent"} THEN Msgs ELSE {"Null"} :
             SourceProcessEvent(s, rc, evMsg)

SpecEnable == Init /\ [][NextEnable]_vars

\* The readiness protocol under fair scheduling: a waiter whose loop condition
\* is met again and again gets the mutex and leaves the loop.
SpecLive == SpecEnable /\ SF_vars(\E s \in Srcs : WaitReadyWake(s))

\* The calls that are a bare dispatch, on the Source and on the Manager, among
\* the operations that bring a Source to each of its states.
NextCalls ==
    \/ \E libOk \in BOOLEAN, resolved \in BOOLEAN : ManagerLoad(libOk, resolved)
    \/ \E rc \in RC, windowOk \in BOOLEAN : ManagerOpen(rc, windowOk)
    \/ \E rc \in RC : ManagerClose(rc)
    \/ \E rcFirst \in {"Success"} \cup ListRC :
          \E more \in IF success(rcFirst) THEN 0..(MaxSources - 1) ELSE {0},
             rcLast \in Made(success(rcFirst), ListRC) :
             ManagerSources(rcFirst, more, rcLast)
    \/ \E op \in QueryOps, rc \in RC : ManagerQuery(op, rc)
    \/ \E op \in AssignOps, out \in Srcs \cup {NoSrc}, rc \in RC :
          \E newId \in IF success(rc) /\ out \in Srcs THEN Ids ELSE {"id1"},
             rcDis \in RCTest, rcClose \in RCTest :
             ManagerAssignSource(op, out, rc, newId, "Failure", "Image", 0, "Failure", "Image",
                                 rcDis, rcClose)
    \/ \E s \in Srcs, rcDis \in RCTest, rcClose \in RCTest :
          SourceDestroy(s, "Failure", "Image", 0, "Failure", "Image", rcDis, rcClose)
    \/ \E s \in Srcs : SourceCreate(s)
    \/ \E s \in Srcs, rcOpen \in RC :
          \E cb2 \in Made(success(rcOpen), RCTest) :
          \E cb1 \in Made(success(rcOpen) /\ ~success(cb2), RCTest),
             allocOk \in BOOLEAN, rcClose \in RCTest :
             SourceOpen(s, rcOpen, cb2, cb1, allocOk, rcClose)
    \/ \E s \in Srcs, uiOnly \in BOOLEAN, adv \in BOOLEAN : SourceEnableCall(s, uiOnly, adv)
    \/ \E s \in Srcs, rc \in RC : SourceEnableReturn(s, rc, "h1")
    \/ \E id \in Ids, msg \in Msgs : CallBack(id, msg)
    \/ \E s \in Srcs, dat \in GenericDats, rc \in GenericRC : SourceGenericCall(s, dat, rc)

SpecCalls == Init /\ [][NextCalls]_vars

\* The life of a Source object: every operation of Source, its destruction,
\* its creation and the move-assignment of a new Source into it, beside the
\* other Source object that shares its identity and the callback.
NextLife ==
    \/ \E libOk \in BOOLEAN, resolved \in BOOLEAN : ManagerLoad(libOk, resolved)
    \/ \E s \in Srcs, rcOpen \in RC :
          \E cb2 \in Made(success(rcOpen), RCTest) :
          \E cb1 \in Made(success(rcOpen) /\ ~success(cb2), RCTest),
             allocOk \in BOOLEAN, rcClose \in RCTest :
             SourceOpen(s, rcOpen, cb2, cb1, allocOk, rcClose)
    \/ \E s \in Srcs, rc \in RC : SourceClose(s, rc)
    \/ \E s \in Srcs, uiOnly \in BOOLEAN, adv \in BOOLEAN : SourceEnableCall(s, uiOnly, adv)
    \/ \E s \in Srcs, rc \in RC : SourceEnableReturn(s, rc, "h1")
    \/ \E s \in Srcs, rc \in RC : SourceDisable(s, rc)
    \/ \E s \in Srcs : WaitReadyBegin(s)
    \/ \E s \in Srcs : WaitReadyWake(s)
    \/ \E s \in Srcs, getOk \in BOOLEAN :
          \E rc \in Made(getOk, EventRC) :
          \E evMsg \in IF rc \in {"DsEvent", "NotDsEvent"} THEN LifeMsgs ELSE {"Null"} :
             WaitReadyPump(s, getOk, rc, evMsg)
    \/ \E s \in Srcs, rc \in EventRC :
          \E evMsg \in IF rc \in {"DsEvent", "NotDsEvent"} THEN LifeMsgs ELSE {"Null"} :
             SourceProcessEvent(s, rc, evMsg)
    \/ \E s \in Srcs, msg \in PendingMsgs, rc \in RCTest :
          \E xg \in IF success(rc) /\ msg # "Get" THEN DataGroups ELSE {"Image"},
             count \in IF success(rc) /\ msg = "EndXfer" THEN 0..MaxCount ELSE {0} :
             SourcePendingXfers(s, msg, rc, xg, count)
    \/ \E s \in Srcs, kind \in LifeXfers, rc \in XferRC : SourceXfer(s, kind, rc)
    \/ \E s \in Srcs :
          \E rcEnd \in Made(dsState[s] = "Xferring", RCTest) :
          \E xg1 \in IF dsState[s] = "Xferring" /\ success(rcEnd) THEN DataGroups ELSE {"Image"},
             count \in IF dsState[s] = "Xferring" /\ success(rcEnd) THEN 0..MaxCount ELSE {0},
             rcReset \in Made(dsState[s] \in {"Xferring", "XferReady"}, RCTest) :
          \E xg2 \in IF success(rcReset) THEN DataGroups ELSE {"Image"},
             rcDis \in Made(dsState[s] \notin {"Closed", "Open"}, RCTest),
             rcClose \in Made(dsState[s] # "Closed", RCTest) :
             SourceCleanup(s, rcEnd, xg1, count, rcReset, xg2, rcDis, rcClose)
    \/ \E s \in Srcs :
          \E rcEnd \in Made(dsState[s] = "Xferring", RCTest) :
          \E xg1 \in IF dsState[s] = "Xferring" /\ success(rcEnd) THEN DataGroups ELSE {"Image"},
             count \in IF dsState[s] = "Xferring" /\ success(rcEnd) THEN 0..MaxCount ELSE {0},
             rcReset \in Made(dsState[s] \in {"Xferring", "XferReady"}, RCTest) :
          \E xg2 \in IF success(rcReset) THEN DataGroups ELSE {"Image"},
             rcDis \in Made(dsState[s] \notin {"Closed", "Open"}, RCTest),
             rcClose \in Made(dsState[s] # "Closed", RCTest) :
             SourceDestroy(s, rcEnd, xg1, count, rcReset, xg2, rcDis, rcClose)
    \/ \E s \in Srcs :
          \E rcEnd \in Made(dsState[s] = "Xferring", RCTest) :
          \E xg1 \in IF dsState[s] = "Xferring" /\ success(rcEnd) THEN DataGroups ELSE {"Image"},
             count \in IF dsState[s] = "Xferring" /\ success(rcEnd) THEN 0..MaxCount ELSE {0},
             rcReset \in Made(dsState[s] \in {"Xferring", "XferReady"}, RCTest) :
          \E xg2 \in IF success(rcReset) THEN DataGroups ELSE {"Image"},
             rcDis \in Made(dsState[s] \notin {"Closed", "Open"}, RCTest),
             rcClose \in Made(dsState[s] # "Closed", RCTest) :
             \E newId \in Ids :
                SourceMoveAssign(s, newId, rcEnd, xg1, count, rcReset, xg2, rcDis, rcClose)
    \/ \E s \in Srcs : SourceCreate(s)
    \/ \E id \in Ids, msg \in LifeMsgs : CallBack(id, msg)
    \/ OtherSourceOpen
    \/ OtherSourceClose

SpecLife == Init /\ [][NextLife]_vars

\* ---------------------------------------------------------------- properties

\* The step just taken is a return of the named operation on source s.
Returned(op, s) == ret'.op = op /\ ret'.src = s /\ ret'.rc # "none"

DsmChain == {<<"PreSession", "Loaded">>, <<"Loaded", "PreSession">>,
             <<"Loaded", "Open">>, <<"Open", "Loaded">>}

\* C1 (as claimed): every change of dsmState made by load, unload, open or close
\* is one step along PreSession <-> Loaded <-> Open (cleanup makes up to two such
\* steps, close then unload), and Manager::close never returns Success when
\* dsmState was not Open.
C1_ManagerChainAndCloseGate ==
    [][/\ (dsmState' # dsmState /\ ret'.op # "Manager::cleanup")
            => <<dsmState, dsmState'>> \in DsmChain
       /\ (ret'.op = "Manager::close" /\ ret'.rc = "Success")
            => dsmState = "Open"]_vars

\* The transition graph of the Source state machine, labelled by operation.
GraphEdge(op, from, to) ==
    \/ op = "Source::open" /\ from = "Closed" /\ to = "Open"
    \/ op = "Source::close" /\ from = "Open" /\ to = "Closed"
    \/ op = "Source::enable" /\ from = "Open" /\ to = "Enabled"
    \/ op = "Source::disable" /\ from = "Enabled" /\ to = "Open"
    \/ op = "Source::waitReady" /\ from = "Enabled" /\ to \in {"XferReady", "Open"}
    \/ op = "Source::xfer" /\ from = "XferReady" /\ to = "Xferring"
    \/ op = "Source::pendingXfers" /\ from = "Xferring" /\ to \in {"Enabled", "XferReady"}
    \/ op = "Source::pendingXfers" /\ from = "XferReady" /\ to = "Enabled"

GraphOps == {"Source::open", "Source::close", "Source::enable", "Source::disable",
             "Source::waitReady", "Source::xfer", "Source::pendingXfers"}

\* C2 (as claimed): every change of dsState made by a Source operation is an
\* edge of the transition graph, and an operation called in a state from which
\* the graph has no edge for it returns Failure and leaves dsState unchanged.
C2_SourceFollowsGraph ==
    [][\A s \in Srcs : \A op \in GraphOps :
         Returned(op, s) =>
           /\ dsState'[s] # dsState[s] => GraphEdge(op, dsState[s], dsState'[s])
           /\ (\A to \in DsStates : ~GraphEdge(op, dsState[s], to))
                => ret'.rc = "Failure" /\ dsState'[s] = dsState[s]]_vars

\* C3 (as claimed): at every return of waitReady, on every path and in both
\* builds, m_readyMsg is not Null.
C3_NeverReturnsWhileNull ==
    [][\A s \in Srcs :
         Returned("Source::waitReady", s) => m_readyMsg'[s] # "Null"]_vars

EarlyExits == {"gate", "nocb", "getmessage", "processevent"}

\* C3 (amended): waitReady returns with m_readyMsg Null only through an early
\* exit: the state gate, the missing registry entry of the condition-variable
\* build, or a GetMessage / ProcessEvent failure of the message-pump build. A
\* return through the final switch has m_readyMsg set, and in the
\* condition-variable build a waitReady that started to wait never returns
\* with m_readyMsg Null.
C3_NullOnlyOnEarlyExit ==
    [][\A s \in Srcs :
         Returned("Source::waitReady", s) =>
           /\ ret'.path = "signal" => m_readyMsg'[s] # "Null"
           /\ m_readyMsg'[s] = "Null" =>
                /\ ret'.path \in EarlyExits
                /\ ~isWin => ret'.rc = "Failure" /\ pc[s].at = "idle"]_vars

C3_Witness ==
    /\ ~isWin
    /\ ret.op = "Source::waitReady" /\ ret.path = "signal" /\ ret.src \in Srcs
    /\ m_readyMsg[ret.src] # "Null"
    /\ pendingSignal[ret.src] = "Null"

\* C4: a waitReady that was called on an Enabled source and observed a
\* readiness signal returns what the signal alone determines: XferReady gives
\* Success and dsState XferReady; CloseDsOk gives Success, dsState unchanged;
\* CloseDsReq gives Cancel; anything else gives Failure.
C4_ResultBySignal ==
    [][\A s \in Srcs :
         (Returned("Source::waitReady", s) /\ ret'.path = "signal") =>
           /\ dsState[s] = "Enabled"
           /\ m_readyMsg[s] = "XferReady"
                => ret'.rc = "Success" /\ dsState'[s] = "XferReady"
           /\ m_readyMsg[s] = "CloseDsOk"
                => ret'.rc = "Success" /\ dsState'[s] = dsState[s]
           /\ m_readyMsg[s] = "CloseDsReq"
                => ret'.rc = "Cancel" /\ dsState'[s] = dsState[s]
           /\ m_readyMsg[s] \notin {"XferReady", "CloseDsOk", "CloseDsReq"}
                => ret'.rc = "Failure" /\ dsState'[s] = dsState[s]]_vars

C4_Witness ==
    \E s \in Srcs :
      /\ ret = Ev("Source::waitReady", s, "Success", "signal", <<>>)
      /\ lastEnable[s] = "full"
      /\ m_readyMsg[s] = "XferReady"
      /\ dsState[s] = "XferReady"
      /\ g_cbRefs[m_srcId[s]] = s

\* C5: after enable(ui, false) succeeded and CloseDsReq was posted, waitReady
\* returns Cancel and dsState remains Enabled.
C5_CancelKeepsEnabled ==
    [][\A s \in Srcs :
         (/\ Returned("Source::waitReady", s) /\ ret'.path = "signal"
          /\ lastEnable[s] = "full" /\ m_readyMsg[s] = "CloseDsReq")
           => ret'.rc = "Cancel" /\ dsState'[s] = "Enabled"]_vars

C5_Witness ==
    \E s \in Srcs :
      /\ ret = Ev("Source::waitReady", s, "Cancel", "signal", <<>>)
      /\ lastEnable[s] = "full"
      /\ m_readyMsg[s] = "CloseDsReq"
      /\ dsState[s] = "Enabled"

\* C6 (as claimed): after enable(ui, uiOnly = true) succeeded and CloseDsOk was
\* posted, waitReady returns Success and dsState is Open afterwards.
C6_UiOnlyEndsOpen ==
    [][\A s \in Srcs :
         (/\ Returned("Source::waitReady", s) /\ ret'.path = "signal"
          /\ lastEnable[s] = "uiOnly" /\ m_readyMsg[s] = "CloseDsOk")
           => ret'.rc = "Success" /\ dsState'[s] = "Open"]_vars

\* C6 (amended): after enable(ui, uiOnly = true) succeeded and CloseDsOk was
\* posted, waitReady returns Success and dsState is still Enabled afterwards:
\* it moves neither to Open nor to XferReady.
C6_UiOnlyStaysEnabled ==
    [][\A s \in Srcs :
         (/\ Returned("Source::waitReady", s) /\ ret'.path = "signal"
          /\ lastEnable[s] = "uiOnly" /\ m_readyMsg[s] = "CloseDsOk")
           => ret'.rc = "Success" /\ dsState'[s] = "Enabled"]_vars

C6_Witness ==
    \E s \in Srcs :
      /\ ret = Ev("Source::waitReady", s, "Success", "signal", <<>>)
      /\ lastEnable[s] = "uiOnly"
      /\ m_readyMsg[s] = "CloseDsOk"
      /\ dsState[s] = "Enabled"

\* C7 (as claimed): in the condition-variable build no readiness signal is
\* lost: a waitReady is never blocked in the wait with m_readyMsg Null while a
\* signal was posted to its source after the native side accepted EnableDs.
C7_NoSignalLost ==
    \A s \in Srcs :
      (~isWin /\ pc[s].at = "wait" /\ pendingSignal[s] # "Null")
        => m_readyMsg[s] # "Null"

\* C8 (as claimed): after an open() that returned success and registered a
\* callback the registry holds exactly one entry for the source, under its id;
\* after any close() on the source, successful or not, and after a cleanup()
\* that reached close(), the key is absent.
C8_RegistryAfterOpenAndAnyClose ==
    [][\A s \in Srcs :
         /\ (Returned("Source::open", s) /\ ret'.path = "registered")
              => /\ g_cbRefs'[m_srcId[s]] = s
                 /\ \A i \in Ids \ {m_srcId[s]} : g_cbRefs'[i] # s
         /\ Returned("Source::close", s) => g_cbRefs'[m_srcId[s]] = NoSrc
         /\ (Returned("Source::cleanup", s) /\ dsState[s] # "Closed")
              => g_cbRefs'[m_srcId[s]] = NoSrc]_vars

\* C8 (amended): after an open() that returned success and registered a
\* callback the registry holds exactly one entry for the source, under its id;
\* after a close() whose CloseDs succeeded, and after a cleanup() started in a
\* state other than Closed (whether its CloseDs succeeded or not), the key is
\* absent; a close() whose CloseDs failed leaves the registry as it was.
C8_RegistryAfterOpenAndClose ==
    [][\A s \in Srcs :
         /\ (Returned("Source::open", s) /\ ret'.path = "registered")
              => /\ g_cbRefs'[m_srcId[s]] = s
                 /\ \A i \in Ids \ {m_srcId[s]} : g_cbRefs'[i] # s
         /\ (Returned("Source::close", s) /\ ret'.rc = "Success")
              => g_cbRefs'[m_srcId[s]] = NoSrc
         /\ (Returned("Source::close", s) /\ ret'.rc # "Success")
              => g_cbRefs' = g_cbRefs
         /\ (Returned("Source::cleanup", s) /\ dsState[s] # "Closed")
              => g_cbRefs'[m_srcId[s]] = NoSrc]_vars

\* A cleanup whose CloseDs failed: the source is still not Closed, its key is
\* gone.
C8_Witness ==
    \E s \in Srcs :
      /\ ret.op = "Source::cleanup" /\ ret.src = s
      /\ ret.path \in {"Open", "Enabled"}
      /\ cbAccepted[s]
      /\ dsState[s] # "Closed"
      /\ g_cbRefs[m_srcId[s]] = NoSrc

\* C9: a registry entry points to a Source only while that Source is Open,
\* Enabled, XferReady or Xferring, and only if the native side accepted a
\* RegisterCallback of one of its open() calls.
C9_EntryOnlyWhileOpenAndRegistered ==
    \A i \in Ids : \A s \in Srcs :
      g_cbRefs[i] = s =>
        /\ dsState[s] \in {"Open", "Enabled", "XferReady", "Xferring"}
        /\ cbAccepted[s]

C9_Witness ==
    \E s \in Srcs :
      /\ g_cbRefs[m_srcId[s]] = s
      /\ dsState[s] = "Xferring"
      /\ ret.op = "Source::xfer"

\* C10 (as claimed): m_entry is non-null exactly when dsmState is not
\* PreSession; load() followed by unload() leaves PreSession with the entry
\* cleared.
C10_EntryIffNotPreSession ==
    (m_entry # "null") <=> (dsmState # "PreSession")

\* C11 (as claimed): Manager::cleanup started in any state ends with dsmState
\* PreSession and the library released, whether its close() succeeded or not.
C11_CleanupEndsPreSession ==
    [][(ret'.op = "Manager::cleanup" /\ ret'.rc = "void")
         => dsmState' = "PreSession" /\ ~libLoaded']_vars

\* C12 (as claimed): Source::cleanup, started in any state and for any native
\* codes, ends with dsState Closed, and a cleanup that directly follows a
\* cleanup of the same source issues no dispatch call and changes no state.
C12_CleanupIdempotent ==
    [][\A s \in Srcs :
         Returned("Source::cleanup", s) =>
           /\ dsState'[s] = "Closed"
           /\ (ret.op = "Source::cleanup" /\ ret.src = s)
                => /\ ret'.calls = <<>>
                   /\ UNCHANGED <<mgrVars, srcVars>>]_vars

\* C13 (as claimed): in the condition-variable build, when OpenDs succeeds and
\* both RegisterCallback forms are rejected, open() calls close(), returns
\* Failure, and on return dsState is Closed and no registry entry points to
\* the source.
C13_RollbackEndsClosed ==
    [][\A s \in Srcs :
         (Returned("Source::open", s) /\ ret'.path = "rollback") =>
           /\ ~isWin
           /\ ret'.rc = "Failure"
           /\ ret'.calls[Len(ret'.calls)] = "CloseDs"
           /\ dsState'[s] = "Closed"
           /\ \A i \in Ids : g_cbRefs'[i] # s]_vars

\* C13 (amended): in the condition-variable build, when OpenDs succeeds and
\* both RegisterCallback forms are rejected, open() calls close() and returns
\* Failure, and it registers nothing. When that CloseDs succeeded, dsState is
\* Closed on return and the source's key is absent; when it failed, dsState is
\* Open on return and the registry is as it was before the call.
C13_RollbackFollowsClose ==
    [][\A s \in Srcs : \A allocOk \in BOOLEAN, rcClose \in RCTest :
         (/\ ~isWin
          /\ Returned("Source::open", s) /\ ret'.path = "rollback"
          /\ SourceOpen(s, "Success", "Failure", "Failure", allocOk, rcClose)) =>
           /\ ret'.rc = "Failure"
           /\ ret'.calls = <<"OpenDs", "RegisterCallback2", "RegisterCallback", "CloseDs">>
           /\ \A i \in Ids : g_cbRefs'[i] = s => g_cbRefs[i] = s
           /\ IF success(rcClose)
              THEN dsState'[s] = "Closed" /\ g_cbRefs'[m_srcId[s]] = NoSrc
              ELSE dsState'[s] = "Open" /\ g_cbRefs' = g_cbRefs]_vars

\* A rollback whose CloseDs succeeded: the source is Closed and unregistered.
C13_Witness ==
    \E s \in Srcs :
      /\ ~isWin
      /\ ret.op = "Source::open" /\ ret.src = s /\ ret.path = "rollback"
      /\ ret.rc = "Failure"
      /\ dsState[s] = "Closed"
      /\ g_cbRefs[m_srcId[s]] # s

\* C14 (as claimed): Manager::sources stops at the first non-success code of
\* GetNext; when exactly one identity was enumerated it returns Success (or the
\* code of a failure), never EndOfList; when more than one was enumerated it
\* returns EndOfList or the failing code; when none was it returns the failing
\* code of GetFirst; the identities pushed before the terminating call stay in
\* the container.
C14_SourcesReturnByCount ==
    [][(ret'.op = "Manager::sources" /\ ret'.rc # "crash") =>
         /\ ret'.count = Len(ret'.calls) - 1
         /\ ret'.count = 1 => ret'.rc \in {"Success", "Failure"}
         /\ ret'.count # 1 => ret'.rc \in ListRC]_vars

\* C15 (as claimed): no operation invokes the dispatch entry while dsmState is
\* PreSession, and Manager::close outside Open, Source::disable outside Enabled
\* and waitReady outside Enabled return Failure without a native call.
C15_GatingBeforeDispatch ==
    [][/\ dsmState = "PreSession" => ret'.rc # "crash" /\ ret'.calls = <<>>
       /\ (ret'.op = "Manager::close" /\ dsmState # "Open")
            => ret'.rc = "Failure" /\ ret'.calls = <<>>
       /\ \A s \in Srcs :
            /\ (Returned("Source::disable", s) /\ dsState[s] # "Enabled")
                 => ret'.rc = "Failure" /\ ret'.calls = <<>>
            /\ (Returned("Source::waitReady", s) /\ pc[s].at = "idle"
                /\ dsState[s] # "Enabled")
                 => ret'.rc = "Failure" /\ ret'.calls = <<>>]_vars

\* The step is a return of one of the seven operations after its native call
\* returned a non-success code.
NativeCallFailed ==
    /\ \/ ret'.op \in {"Source::close", "Source::enable", "Source::disable",
                       "Source::pendingXfers"}
       \/ ret'.op \in {"Manager::open", "Manager::close", "Source::open"}
          /\ ret'.path = "native"
    /\ ret'.rc \notin {"Success", "crash", "none"}

AdvancesOnCheckStatus ==
    ret'.op = "Source::enable" /\ ret'.path = "full" /\ ret'.rc = "CheckStatus"

\* C16 (as claimed): when the native call of Manager::open, Manager::close,
\* Source::open, close, enable, disable or pendingXfers returns a non-success
\* code, dsmState, dsState, m_readyMsg and the registry are left unchanged.
C16_FailureLeavesState ==
    [][NativeCallFailed => UNCHANGED <<dsmState, dsState, m_readyMsg, g_cbRefs>>]_vars

\* C16 (amended): when the native call of one of these operations returns a
\* non-success code, dsmState, dsState, m_readyMsg and the registry are left
\* unchanged, except that enable() in its full form, on CheckStatus, sets
\* dsState to Enabled and m_readyMsg to Null; the code returned is a
\* non-success code and never Success.
C16_FailureLeavesStateButCheckStatus ==
    [][NativeCallFailed =>
         IF AdvancesOnCheckStatus
         THEN /\ dsState'[ret'.src] = "Enabled" /\ m_readyMsg'[ret'.src] = "Null"
              /\ UNCHANGED <<dsmState, g_cbRefs>>
         ELSE UNCHANGED <<dsmState, dsState, m_readyMsg, g_cbRefs>>]_vars

\* A disable() whose DisableDs failed on an Enabled source that holds a signal.
C16_Witness ==
    \E s \in Srcs :
      /\ ret.op = "Source::disable" /\ ret.src = s /\ ret.rc = "Failure"
      /\ dsState[s] = "Enabled"
      /\ m_readyMsg[s] # "Null"
      /\ g_cbRefs[m_srcId[s]] = s

\* C17: Manager::load called in PreSession returns false and leaves PreSession
\* with the library released both when the library cannot be loaded and when
\* the entry cannot be resolved; it returns true exactly when dsmState goes
\* from PreSession to Loaded, and then the entry is set; outside PreSession it
\* returns false and changes nothing.
C17_LoadResult ==
    [][ret'.op = "Manager::load" =>
         /\ ret'.rc \in {"true", "false"}
         /\ ret'.rc = "true" <=> (dsmState = "PreSession" /\ dsmState' = "Loaded")
         /\ ret'.rc = "true" => m_entry' = "set" /\ libLoaded'
         /\ (ret'.rc = "false" /\ dsmState = "PreSession")
              => dsmState' = "PreSession" /\ ~libLoaded'
         /\ ret'.path = "unresolved" => m_entry' = "null"
         /\ dsmState # "PreSession"
              => ret'.rc = "false" /\ UNCHANGED <<mgrVars, srcVars>>]_vars

\* A load whose entry could not be resolved: the library was released again.
C17_Witness ==
    /\ ret.op = "Manager::load" /\ ret.path = "unresolved" /\ ret.rc = "false"
    /\ dsmState = "PreSession" /\ ~libLoaded /\ m_entry = "null"

\* C19 (as claimed): Source::cleanup started in Xferring issues
\* pendingXfers(EndXfer), then pendingXfers(Reset) when EndXfer failed and left
\* the source in Xferring, then disable(), then close().
C19_CleanupDrainsInOrder ==
    [][\A s \in Srcs :
         (Returned("Source::cleanup", s) /\ dsState[s] = "Xferring") =>
           LET c     == ret'.calls
               endOk == c[2] = "XferGroup.Get"
               rest  == SubSeq(c, IF endOk THEN 3 ELSE 2, Len(c))
           IN  /\ c[1] = "PendingXfers.EndXfer"
               /\ rest[Len(rest) - 1] = "DisableDs"
               /\ rest[Len(rest)] = "CloseDs"
               /\ ~endOk => rest[1] = "PendingXfers.Reset"]_vars

\* C20: after a successful pendingXfers the new dsState follows from the
\* message, the count and the transfer group read back: EndXfer with count 0
\* and group Image gives Enabled; EndXfer with a count above 0 gives XferReady;
\* Reset with group Image gives Enabled; Reset with another group, and every
\* other message, leave dsState as it was.
C20_PendingStateByReply ==
    [][\A s \in Srcs :
         (Returned("Source::pendingXfers", s) /\ ret'.rc = "Success") =>
           /\ (ret'.path = "EndXfer" /\ ret'.count = 0 /\ ret'.xg = "Image")
                => dsState'[s] = "Enabled"
           /\ (ret'.path = "EndXfer" /\ ret'.count > 0)
                => dsState'[s] = "XferReady"
           /\ (ret'.path = "Reset" /\ ret'.xg = "Image")
                => dsState'[s] = "Enabled"
           /\ (ret'.path = "Reset" /\ ret'.xg # "Image")
                => dsState'[s] = dsState[s]
           /\ ret'.path \notin {"EndXfer", "Reset"}
                => dsState'[s] = dsState[s]]_vars

\* An EndXfer with transfers remaining, with group Image.
C20_Witness ==
    \E s \in Srcs :
      /\ ret.op = "Source::pendingXfers" /\ ret.src = s /\ ret.rc = "Success"
      /\ ret.path = "EndXfer" /\ ret.count > 0 /\ ret.xg = "Image"
      /\ dsState[s] = "XferReady"

\* C18 (as claimed): while callBack holds the pointer it took from the
\* registry and has yet to dereference it, no other thread has erased that
\* entry, closed that source or freed its SourceData.
C18_CallbackExcludesMutation ==
    (cb.at = "found" /\ cb.src \in Srcs) =>
      /\ alive[cb.src]
      /\ g_cbRefs[cb.id] = cb.src
      /\ dsState[cb.src] # "Closed"

\* C21: enable(ui, uiOnly) sets dsState to Enabled, m_readyMsg to Null and
\* m_uiHandle to ui.parent() exactly when the native call returned Success, or
\* CheckStatus in the full form; on CheckStatus in the ui-only form and on
\* every other code the three fields are left as they were.
C21_EnableAdvancesExactly ==
    [][\A s \in Srcs : \A rc \in RC, parent \in Handles \cup {NullHandle} :
         (Returned("Source::enable", s) /\ SourceEnableReturn(s, rc, parent)) =>
           IF rc = "Success" \/ (rc = "CheckStatus" /\ ~pc[s].uiOnly)
           THEN /\ dsState'[s] = "Enabled"
                /\ m_readyMsg'[s] = "Null"
                /\ m_uiHandle'[s] = parent
           ELSE /\ dsState'[s] = dsState[s]
                /\ m_readyMsg'[s] = m_readyMsg[s]
                /\ m_uiHandle'[s] = m_uiHandle[s]]_vars

\* A ui-only enable that returned CheckStatus after an earlier enable had
\* recorded a parent and a signal had been stored: nothing moved.
C21_Witness ==
    \E s \in Srcs :
      /\ ret.op = "Source::enable" /\ ret.src = s
      /\ ret.path = "uiOnly" /\ ret.rc = "CheckStatus"
      /\ dsState[s] = "Open"
      /\ m_uiHandle[s] = "h2"
      /\ m_readyMsg[s] # "Null"

\* C22: each of the six transfer-initiating calls moves dsState to Xferring
\* when the native call returned Success and when it returned XferDone, and
\* leaves dsState as it was on every other code.
C22_XferAdvancesUniformly ==
    [][\A s \in Srcs :
         Returned("Source::xfer", s) =>
           dsState'[s] = IF ret'.rc \in {"Success", "XferDone"}
                         THEN "Xferring" ELSE dsState[s]]_vars

\* C23: a typed Source call that is a bare dispatch (capability, customData,
\* status, imageInfo, imageLayout, xferGroup, setupFileXfer, customBase)
\* leaves dsState, m_readyMsg and the callback registry as they were whatever
\* code the native call returns, and Manager::createSource, defaultSource,
\* sources, showSourceDialog, setDefaultSource and status leave dsmState as it
\* was.
C23_BareDispatchFrame ==
    [][/\ \A s \in Srcs :
            Returned("Source::call", s) =>
              /\ dsState' = dsState
              /\ m_readyMsg' = m_readyMsg
              /\ g_cbRefs' = g_cbRefs
       /\ ret'.op \in {"Manager::createSource", "Manager::sources"} \cup AssignOps \cup QueryOps
            => dsmState' = dsmState]_vars

\* A generic call answered XferDone on a source that was ready to transfer,
\* with a signal stored and the registry entry in place.
C23_Witness ==
    \E s \in Srcs :
      /\ ret.op = "Source::call" /\ ret.src = s /\ ret.rc = "XferDone"
      /\ dsState[s] = "Enabled"
      /\ m_readyMsg[s] = "XferReady"
      /\ g_cbRefs[m_srcId[s]] = s
      /\ dsmState = "Open"

\* C24: processEvent(msg) changes dsState and m_readyMsg as the handling of
\* that one message inside waitReady() does; in particular a processEvent on a
\* source whose dsState is not Enabled leaves dsState as it was.
C24_ProcessEventOnlyWhenEnabled ==
    [][\A s \in Srcs :
         (Returned("Source::processEvent", s) /\ dsState[s] # "Enabled")
           => dsState'[s] = dsState[s]]_vars

\* C25: a signal posted by the callback is observed by one return of
\* waitReady(): in the condition-variable build, whenever waitReady() returns
\* through its final switch, the callback has posted a signal that no earlier
\* return of waitReady() observed.
C25_SignalObservedOnce ==
    [][\A s \in Srcs :
         (~isWin /\ Returned("Source::waitReady", s) /\ ret'.path = "signal")
           => pendingSignal[s] # "Null"]_vars

\* C26: in the condition-variable build, once the callback has stored
\* XferReady, CloseDsOk or CloseDsReq for a source whose waitReady() is blocked,
\* that waitReady() eventually returns under fair scheduling.
C26_BlockedWaiterReturns ==
    \A s \in Srcs :
      (~isWin /\ pc[s].at = "wait" /\ m_readyMsg[s] \in {"XferReady", "CloseDsOk", "CloseDsReq"})
        ~> (pc[s].at = "idle")

\* The step frees the SourceData that Source s held: ~Source, or a
\* move-assignment into a Source that held one.
Frees(s) ==
    /\ ret'.src = s
    /\ \/ ret'.op = "Source::~Source"
       \/ ret'.op \in {"Source::operator="} \cup AssignOps /\ ret'.path \in DsStates

\* C27: every entry of the callback registry refers to the SourceData of a
\* Source that exists, whatever the operations made on the Source and the
\* codes returned by the native calls; the destruction of a Source and a
\* move-assignment into it leave no entry that refers to the SourceData freed.
C27_NoDanglingEntry ==
    [][/\ \A i \in Ids : g_cbRefs'[i] \in Srcs => alive'[g_cbRefs'[i]]
       /\ \A s \in Srcs : Frees(s) => \A i \in Ids : g_cbRefs'[i] # s]_vars

\* A Source destroyed while Enabled with its callback registered, whose
\* CloseDs failed: it was freed in a state other than Closed and no entry is
\* left for it.
C27_Witness ==
    \E s \in Srcs :
      /\ ret.op = "Source::~Source" /\ ret.src = s /\ ret.path = "Enabled"
      /\ ~alive[s]
      /\ cbAccepted[s]
      /\ dsState[s] # "Closed"
      /\ \A i \in Ids : g_cbRefs[i] # s

====
